---- MODULE Spec2Model ----
(***************************************************************************)
(* Model of xo::BlockAllocator<SIZE> (src/xo-alloc.h).                     *)
(*                                                                         *)
(* The arena is modelled at the byte level: m_Buffer is an array of bytes  *)
(* and a Block header is the 4 bytes found at an address, decoded with the *)
(* layout GCC and Clang give `bool Free:1; uint32_t Size:31;` on a         *)
(* little-endian target (Free is bit 0, Size the 31 bits above it,         *)
(* sizeof(Block) = 4).  Pointers are 64-bit addresses that do not wrap.    *)
(* The PadLen bytes that follow the buffer in memory are part of the state *)
(* because the code can read and write them; an address further out is     *)
(* never read by any operation, so a write to it is only recorded.         *)
(*                                                                         *)
(* Spec is the allocator under a caller that releases only handles it was  *)
(* given (and null); SpecAny adds one final Free or Delete of a pointer    *)
(* the caller was not given.                                               *)
(***************************************************************************)
EXTENDS Integers, Sequences, FiniteSets, Bags, TLC

SIZE == 24             \* the template parameter of BlockAllocator<SIZE>
HeaderSize == 4        \* sizeof(Block)
BufBase == 16          \* address of m_Buffer[0]
nullptr == 0
MaxSize31 == 2147483647   \* largest value of the 31 bit field Size
MaxOps == 5            \* bound on the length of the explored call sequences
MaxPrior == 3          \* bound on the calls made before a foreign pointer is released

PadLen == HeaderSize   \* bytes after m_Buffer that a header access at End() touches
Begin == BufBase
End == BufBase + SIZE
FarAddr == End + 2 * HeaderSize   \* any address beyond every address compared or read

MemAddrs == Begin .. (End + PadLen - 1)
FillBytes == {0, 255}  \* contents of the bytes nobody has written yet

----------------------------------------------------------------------------
(* 31 bit arithmetic of the Size bit-field *)

\* (a + b) mod 2^31 for a, b in 0 .. 2^31-1
Add31(a, b) == IF a > MaxSize31 - b THEN (a - (MaxSize31 - b)) - 1 ELSE a + b

\* conversion of a signed value in -2^31 .. 2^31-1 to the 31 bit field
Trunc31(x) == IF x < 0 THEN (x + MaxSize31) + 1 ELSE x

----------------------------------------------------------------------------
(* struct Block, read and written through the bytes of memory *)

ByteAt(mem, a) == IF a \in DOMAIN mem THEN mem[a] ELSE 0

BlockFree(mem, a) == ByteAt(mem, a) % 2 = 1

BlockSize(mem, a) ==
    (ByteAt(mem, a) \div 2) + 128 * ByteAt(mem, a + 1)
        + 32768 * ByteAt(mem, a + 2) + 8388608 * ByteAt(mem, a + 3)

\* b->Free = f
SetFree(mem, a, f) ==
    [x \in DOMAIN mem |->
        IF x = a THEN 2 * (mem[a] \div 2) + (IF f THEN 1 ELSE 0) ELSE mem[x]]

\* b->Size = s
SetSize(mem, a, s) ==
    [x \in DOMAIN mem |->
        IF x = a THEN 2 * (s % 128) + (mem[a] % 2)
        ELSE IF x = a + 1 THEN (s \div 128) % 256
        ELSE IF x = a + 2 THEN (s \div 32768) % 256
        ELSE IF x = a + 3 THEN (s \div 8388608) % 256
        ELSE mem[x]]

\* Block::Next(): (char*)this + Size + sizeof(Block)
BlockNext(mem, a) ==
    IF BlockSize(mem, a) >= FarAddr - a - HeaderSize THEN FarAddr
    ELSE a + BlockSize(mem, a) + HeaderSize

\* Block::Previous(s), called on the block at address this
RECURSIVE BlockPrevious(_, _, _)
BlockPrevious(mem, this, s) ==
    IF BlockNext(mem, s) < this THEN BlockPrevious(mem, this, BlockNext(mem, s))
    ELSE s

----------------------------------------------------------------------------
(* The operations.  Each returns the memory it leaves, its return value    *)
(* and the set of addresses at which it stored a header field.             *)

\* JoinBlocks(b, e, m)
JoinBlocks(mem, b, e, m) ==
    IF BlockFree(mem, m)
    THEN LET n == BlockNext(mem, m)
             p == BlockPrevious(mem, m, b)
             fwd == n < e /\ BlockFree(mem, n)
             mem1 == IF fwd
                     THEN SetSize(mem, m,
                              Add31(BlockSize(mem, m), Add31(BlockSize(mem, n), HeaderSize)))
                     ELSE mem
             bwd == p # m /\ BlockFree(mem1, p)
             mem2 == IF bwd
                     THEN SetSize(mem1, p,
                              Add31(BlockSize(mem1, p), Add31(BlockSize(mem1, m), HeaderSize)))
                     ELSE mem1
         IN  [mem |-> mem2,
              writes |-> (IF fwd THEN {m} ELSE {}) \cup (IF bwd THEN {p} ELSE {})]
    ELSE [mem |-> mem, writes |-> {}]

\* i->Size >= size, where size is the uint32_t parameter [b31, lo]
SizeFits(mem, i, size) == size.b31 = 0 /\ BlockSize(mem, i) >= size.lo

\* Carve with the header of the new block left out of the leftover
Carve_NoHeaderRoom(mem, i, size) ==
    LET mem1 == SetFree(mem, i, FALSE)
        oldSize == BlockSize(mem1, i)
        mem2 == SetSize(mem1, i, size.lo)
        n == BlockNext(mem2, i)
        nextSize == oldSize - size.lo
        absorb == nextSize >= 0 /\ nextSize <= HeaderSize
    IN  IF absorb
        THEN [mem |-> SetSize(mem2, i, Add31(BlockSize(mem2, i), nextSize)),
              ret |-> i + HeaderSize,
              writes |-> {i}]
        ELSE [mem |-> SetSize(SetFree(mem2, n, TRUE), n, Trunc31(nextSize)),
              ret |-> i + HeaderSize,
              writes |-> {i, n}]

\* the body of the if in InternalMalloc: block i has been selected
Carve(mem, i, size) ==
    LET mem1 == SetFree(mem, i, FALSE)
        oldSize == BlockSize(mem1, i)
        mem2 == SetSize(mem1, i, size.lo)
        n == BlockNext(mem2, i)
        nextSize == oldSize - size.lo - HeaderSize
        \* nextSize <= sizeof(Block) compares as unsigned: a negative nextSize is huge
        absorb == nextSize >= 0 /\ nextSize <= HeaderSize
    IN  IF absorb
        THEN [mem |-> SetSize(mem2, i, Add31(BlockSize(mem2, i), nextSize + HeaderSize)),
              ret |-> i + HeaderSize,
              writes |-> {i}]
        ELSE [mem |-> SetSize(SetFree(mem2, n, TRUE), n, Trunc31(nextSize)),
              ret |-> i + HeaderSize,
              writes |-> {i, n}]

\* the for loop of InternalMalloc, from block i
RECURSIVE MallocScan(_, _, _)
MallocScan(mem, i, size) ==
    IF i < End
    THEN IF BlockFree(mem, i) /\ SizeFits(mem, i, size)
         THEN Carve(mem, i, size)
         ELSE MallocScan(mem, BlockNext(mem, i), size)
    ELSE [mem |-> mem, ret |-> nullptr, writes |-> {}]

\* void* InternalMalloc(uint32_t size)
InternalMalloc(mem, size) == MallocScan(mem, Begin, size)

\* a size_t argument is hi * 2^32 + b31 * 2^31 + lo, with lo < 2^31
SmallReq(s) == [hi |-> 0, b31 |-> 0, lo |-> s]

\* the conversion of Malloc's size_t argument to InternalMalloc's uint32_t
ToUint32(req) == [b31 |-> req.b31, lo |-> req.lo]

\* void* Malloc(size_t size)
Malloc(mem, req) == InternalMalloc(mem, ToUint32(req))

\* void InternalFree(void* mem)
InternalFree(mem, ptr) ==
    LET m == ptr - HeaderSize
    IN  IF m < Begin \/ m > End
        THEN [mem |-> mem, writes |-> {}]
        ELSE LET mem1 == SetFree(mem, m, TRUE)
                 j == JoinBlocks(mem1, Begin, End, m)
             IN  [mem |-> j.mem, writes |-> {m} \cup j.writes]

\* void Free(void* m)
Free(mem, ptr) ==
    IF ptr # nullptr THEN InternalFree(mem, ptr) ELSE [mem |-> mem, writes |-> {}]

\* New with the null test dropped: the constructor runs on whatever was returned
New_CtorAlways(mem, sz) ==
    LET r == InternalMalloc(mem, ToUint32(SmallReq(sz)))
    IN  [mem |-> r.mem, ret |-> r.ret, writes |-> r.writes,
         events |-> <<"InternalMalloc", "ctor">>, at |-> r.ret]

\* T* New<T>(args...), with sizeof(T) = sz: the constructor runs on the
\* memory InternalMallocT<sizeof(T)>() returned, unless that is null
New(mem, sz) ==
    LET r == InternalMalloc(mem, ToUint32(SmallReq(sz)))
    IN  [mem |-> r.mem, ret |-> r.ret, writes |-> r.writes,
         events |-> IF r.ret # nullptr THEN <<"InternalMalloc", "ctor">>
                    ELSE <<"InternalMalloc">>,
         at |-> r.ret]

\* void Delete(T* m): the destructor, then InternalFree, unless m is null
Delete(mem, ptr) ==
    IF ptr # nullptr
    THEN LET r == InternalFree(mem, ptr)
         IN  [mem |-> r.mem, writes |-> r.writes,
              events |-> <<"dtor", "InternalFree">>, at |-> ptr]
    ELSE [mem |-> mem, writes |-> {}, events |-> << >>, at |-> nullptr]

\* number of times the event e occurs in the sequence evs
Count(evs, e) == Cardinality({k \in 1 .. Len(evs) : evs[k] = e})

\* BlockAllocator(): one free block over the whole buffer
Construct(raw) == SetSize(SetFree(raw, Begin, TRUE), Begin, SIZE - HeaderSize)

----------------------------------------------------------------------------
(* The walk over the arena that the scans of the code perform: the         *)
(* addresses Begin, Next(Begin), ... below End.                            *)

RECURSIVE WalkFrom(_, _)
WalkFrom(mem, i) ==
    IF i < End THEN <<i>> \o WalkFrom(mem, BlockNext(mem, i)) ELSE << >>

Blocks(mem) == WalkFrom(mem, Begin)

\* the address at which the walk stops
RECURSIVE WalkEnd(_, _)
WalkEnd(mem, i) == IF i < End THEN WalkEnd(mem, BlockNext(mem, i)) ELSE i

\* the sizes and free flags of the blocks, in address order
BlockInfo(mem) ==
    [k \in 1 .. Len(Blocks(mem)) |->
        [addr |-> Blocks(mem)[k],
         size |-> BlockSize(mem, Blocks(mem)[k]),
         free |-> BlockFree(mem, Blocks(mem)[k])]]

----------------------------------------------------------------------------
(* The callers' side: the calls made on the allocator and their arguments. *)

\* the sizes requested: none, small ones, and those around the largest payload
ReqSizes ==
    {0, 1, 5, 8} \cup {SIZE - HeaderSize - d : d \in {8, 1, 0}} \cup {SIZE - HeaderSize + 1}

Requests ==
    {SmallReq(s) : s \in ReqSizes}
        \cup {[hi |-> h, b31 |-> b, lo |-> 8] : h \in {0, 1}, b \in {0, 1}}

\* sizeof(T) of the types given to New<T>: InternalMallocT's static_assert
\* admits the sizes below SIZE - sizeof(Block)
TypeSizes == {s \in {1, 8, SIZE - HeaderSize - 1} : s < SIZE - HeaderSize}

\* pointers that Malloc and New never return, or return only by chance: below
\* the buffer, into a header, into a payload, at the end and beyond it
Foreign ==
    {Begin - 1, Begin, Begin + HeaderSize + 1, Begin + 3 * HeaderSize,
     End, End + 1, End + HeaderSize, End + HeaderSize + 1}

VARIABLES
    mem,      \* the bytes of m_Buffer and of the PadLen bytes after it
    live,     \* bag of [h, size]: the handles returned and not yet released
    last,     \* the last call: its arguments, result, the memory before it, what ran
    returned, \* every handle Malloc or New has returned so far
    misuse,   \* a pointer that was not a live handle has been given to Free/Delete
    nops      \* number of calls made

vars == <<mem, live, returned, last, misuse, nops>>

NoReq == SmallReq(0)

LiveHandles == {r.h : r \in BagToSet(live)}

\* the pointers a correct caller gives to Free and Delete
Pointers == {nullptr} \cup LiveHandles

Init ==
    /\ \E fill \in FillBytes : mem = Construct([a \in MemAddrs |-> fill])
    /\ live = EmptyBag
    /\ returned = {}
    /\ last = [op |-> "BlockAllocator", req |-> NoReq, ptr |-> nullptr, ret |-> nullptr,
               pre |-> mem, writes |-> {Begin}, ctor |-> 0, dtor |-> 0, wasLive |-> FALSE,
               events |-> << >>, at |-> nullptr]
    /\ misuse = FALSE
    /\ nops = 0

CanCall == nops < MaxOps /\ ~misuse

\* p = Alloc.Malloc(req)
DoMalloc(req) ==
    /\ CanCall
    /\ LET r == Malloc(mem, req)
       IN  /\ mem' = r.mem
           /\ live' = IF r.ret # nullptr
                      THEN live (+) SetToBag({[h |-> r.ret, size |-> req]})
                      ELSE live
           /\ last' = [op |-> "Malloc", req |-> req, ptr |-> nullptr, ret |-> r.ret,
                       pre |-> mem, writes |-> r.writes, ctor |-> 0, dtor |-> 0,
                       wasLive |-> FALSE, events |-> <<"InternalMalloc">>,
                       at |-> nullptr]
           /\ returned' = returned \cup ({r.ret} \ {nullptr})
    /\ nops' = nops + 1
    /\ UNCHANGED misuse

\* p = Alloc.New<T>(args...), with sizeof(T) = sz
DoNew(sz) ==
    /\ CanCall
    /\ LET r == New(mem, sz)
       IN  /\ mem' = r.mem
           /\ live' = IF r.ret # nullptr
                      THEN live (+) SetToBag({[h |-> r.ret, size |-> SmallReq(sz)]})
                      ELSE live
           /\ last' = [op |-> "New", req |-> SmallReq(sz), ptr |-> nullptr, ret |-> r.ret,
                       pre |-> mem, writes |-> r.writes,
                       ctor |-> Count(r.events, "ctor"), dtor |-> 0,
                       wasLive |-> FALSE, events |-> r.events, at |-> r.at]
           /\ returned' = returned \cup ({r.ret} \ {nullptr})
    /\ nops' = nops + 1
    /\ UNCHANGED misuse

\* the handle ptr leaves the live handles (one copy of it)
Released(ptr) ==
    IF ptr \in LiveHandles
    THEN live (-) SetToBag({CHOOSE r \in BagToSet(live) : r.h = ptr})
    ELSE live

\* Alloc.Free(ptr)
DoFree(ptr) ==
    /\ CanCall
    /\ LET r == Free(mem, ptr)
       IN  /\ mem' = r.mem
           /\ last' = [op |-> "Free", req |-> NoReq, ptr |-> ptr, ret |-> nullptr,
                       pre |-> mem, writes |-> r.writes, ctor |-> 0, dtor |-> 0,
                       wasLive |-> ptr \in LiveHandles,
                       events |-> IF ptr # nullptr THEN <<"InternalFree">> ELSE << >>,
                       at |-> nullptr]
    /\ live' = Released(ptr)
    /\ misuse' = (ptr # nullptr /\ ptr \notin LiveHandles)
    /\ nops' = nops + 1
    /\ UNCHANGED returned

\* Alloc.Delete(ptr)
DoDelete(ptr) ==
    /\ CanCall
    /\ LET r == Delete(mem, ptr)
       IN  /\ mem' = r.mem
           /\ last' = [op |-> "Delete", req |-> NoReq, ptr |-> ptr, ret |-> nullptr,
                       pre |-> mem, writes |-> r.writes, ctor |-> 0,
                       dtor |-> Count(r.events, "dtor"),
                       wasLive |-> ptr \in LiveHandles, events |-> r.events,
                       at |-> r.at]
    /\ live' = Released(ptr)
    /\ misuse' = (ptr # nullptr /\ ptr \notin LiveHandles)
    /\ nops' = nops + 1
    /\ UNCHANGED returned

\* the calls of a caller that releases only what it was given
Next ==
    \/ \E req \in Requests : DoMalloc(req)
    \/ \E sz \in TypeSizes : DoNew(sz)
    \/ \E ptr \in Pointers : DoFree(ptr)
    \/ \E ptr \in Pointers : DoDelete(ptr)

Spec == Init /\ [][Next]_vars

\* a caller that, after at most MaxPrior correct calls, may also give Free or
\* Delete a pointer it was never given; the exploration stops after that call
ForeignCall ==
    /\ nops <= MaxPrior
    /\ \E ptr \in Foreign \ LiveHandles : DoFree(ptr) \/ DoDelete(ptr)

NextAny ==
    \/ \E req \in Requests : DoMalloc(req)
    \/ \E sz \in TypeSizes : DoNew(sz)
    \/ \E ptr \in Pointers : DoFree(ptr)
    \/ \E ptr \in Pointers : DoDelete(ptr)
    \/ ForeignCall

SpecAny == Init /\ [][NextAny]_vars

----------------------------------------------------------------------------
(* Vocabulary of the properties *)

\* req is a size_t value of at most n, for a small n
ReqAtMost(req, n) == req.hi = 0 /\ req.b31 = 0 /\ req.lo <= n

\* the payload [h, h + requested size) of a live allocation lies in the buffer
InBuffer(r) == r.h >= Begin /\ ReqAtMost(r.size, End - r.h)

\* address a lies in the payload of the live allocation r
InPayload(a, r) == a >= r.h /\ ~ReqAtMost(r.size, a - r.h)

\* two live allocations whose payloads share a byte
Overlap(r1, r2) == \E a \in Begin .. (End + PadLen - 1) : InPayload(a, r1) /\ InPayload(a, r2)

\* a header stored at address w lies in the buffer and in no live payload
HeaderPlaceOk(w) ==
    /\ w >= Begin /\ w + HeaderSize <= End
    /\ \A r \in BagToSet(live) : ~InPayload(w, r)

AllocOps == {"Malloc", "New"}
ReleaseOps == {"Free", "Delete"}

FreshInfo == <<[addr |-> Begin, size |-> SIZE - HeaderSize, free |-> TRUE]>>

----------------------------------------------------------------------------
(* C1 Conservation: after construction and after every allocate and every  *)
(* release of a live handle, the walk from the buffer start by             *)
(* address + headerSize + size lands exactly on the buffer end, that is,   *)
(* the blocks' (headerSize + size) sum to the capacity.                    *)
C1_Conservation == WalkEnd(mem, Begin) = End

(* C2 Live allocations never overlap: the payloads of two live handles are *)
(* disjoint, each lies inside the buffer, and no allocate or release       *)
(* stores a header inside a live payload or outside the buffer.            *)
C2_NoOverlap ==
    /\ \A r \in BagToSet(live) : CopiesIn(r, live) = 1 \/ r.size = SmallReq(0)
    /\ \A r1, r2 \in BagToSet(live) : r1 # r2 => ~Overlap(r1, r2)
    /\ \A r \in BagToSet(live) : InBuffer(r)
    /\ \A w \in last.writes : HeaderPlaceOk(w)

(* C3 No-adjacent-free: after every release of a live handle and after     *)
(* every allocate, no two physically adjacent blocks are both free.        *)
C3_NoAdjacentFree ==
    \A k \in 1 .. (Len(Blocks(mem)) - 1) :
        ~(BlockFree(mem, Blocks(mem)[k]) /\ BlockFree(mem, Blocks(mem)[k + 1]))

(* C4 Full coalescence: whenever every handle ever returned has been       *)
(* released exactly once, the arena is one free block of size              *)
(* capacity - headerSize, as after construction.                           *)
C4_FullCoalescence ==
    (live = EmptyBag) => BlockInfo(mem) = FreshInfo

\* the blocks of memory m that are free and can hold a request of req bytes
Fits(m, req) ==
    {b \in {Blocks(m)[k] : k \in 1 .. Len(Blocks(m))} :
        BlockFree(m, b) /\ ReqAtMost(req, BlockSize(m, b))}

Lowest(S) == CHOOSE a \in S : \A b \in S : a <= b

(* C5 First-fit: allocate selects the lowest-address block that is free    *)
(* and whose size is at least the requested size, and returns the address  *)
(* right after that block's header; the result is determined by the arena  *)
(* before the call and the requested size.                                 *)
C5_FirstFit ==
    last.op \in AllocOps =>
        /\ Fits(last.pre, last.req) # {} =>
               last.ret = Lowest(Fits(last.pre, last.req)) + HeaderSize
        /\ last.ret # nullptr =>
               /\ Fits(last.pre, last.req) # {}
               /\ last.ret = Lowest(Fits(last.pre, last.req)) + HeaderSize

(* C6 Boundary: on a freshly constructed arena allocate(capacity -         *)
(* headerSize) returns buffer start + headerSize and leaves one occupied   *)
(* block of that size with nothing written at or beyond the buffer end;    *)
(* allocate(capacity - headerSize + 1) returns null.                       *)
C6_Boundary ==
    (nops = 1 /\ last.op \in AllocOps) =>
        /\ last.req = SmallReq(SIZE - HeaderSize) =>
               /\ last.ret = Begin + HeaderSize
               /\ BlockInfo(mem) =
                      <<[addr |-> Begin, size |-> SIZE - HeaderSize, free |-> FALSE]>>
               /\ \A w \in last.writes : w + HeaderSize <= End
               /\ \A a \in End .. (End + PadLen - 1) : mem[a] = last.pre[a]
        /\ last.req = SmallReq(SIZE - HeaderSize + 1) => last.ret = nullptr

(* C7 Allocation failure changes nothing: allocate returns null exactly    *)
(* when no free block has size >= the requested size, and then every       *)
(* block has the size and free flag it had before the call.                *)
C7_FailureIsValue ==
    last.op \in AllocOps =>
        /\ (last.ret = nullptr) <=> (Fits(last.pre, last.req) = {})
        /\ last.ret = nullptr => BlockInfo(mem) = BlockInfo(last.pre)

(* C8 Invalid handle tolerance: Free and Delete of a handle that is null   *)
(* or lies outside [buffer start, buffer end] write nothing and leave the  *)
(* size and free flag of every block unchanged.                            *)
C8_InvalidHandleNoop ==
    (last.op \in ReleaseOps /\ (last.ptr = nullptr \/ last.ptr < Begin \/ last.ptr > End)) =>
        /\ last.writes = {}
        /\ mem = last.pre
        /\ BlockInfo(mem) = BlockInfo(last.pre)

(* C9 Free of a pointer this allocator never returned, also one that lies  *)
(* inside the buffer, leaves the size and free flag of every block         *)
(* unchanged.                                                              *)
C9_ForeignFreeNoop ==
    (last.op = "Free" /\ last.ptr \notin returned) =>
        BlockInfo(mem) = BlockInfo(last.pre)

(* C10 Unrepresentable sizes: a request of 2^31 bytes or more (also one of *)
(* 2^32 or more passed as a size_t) never yields a handle and never        *)
(* changes a block.                                                        *)
C10_OversizeRejected ==
    (last.op = "Malloc" /\ (last.req.hi = 1 \/ last.req.b31 = 1)) =>
        /\ last.ret = nullptr
        /\ BlockInfo(mem) = BlockInfo(last.pre)

(* C11 construct: New<T> runs T's constructor exactly once, after the      *)
(* allocation and on the payload allocate(sizeof(T)) returned, when that   *)
(* allocation succeeds; when it fails New returns null, runs no            *)
(* constructor and leaves the arena as it was.                             *)
C11_NewConstructs ==
    last.op = "New" =>
        /\ last.ret = InternalMalloc(last.pre, ToUint32(last.req)).ret
        /\ last.ret # nullptr =>
               /\ last.events = <<"InternalMalloc", "ctor">>
               /\ last.ctor = 1
               /\ last.at = last.ret
        /\ last.ret = nullptr =>
               /\ last.ctor = 0
               /\ Count(last.events, "ctor") = 0
               /\ mem = last.pre

\* a New that failed, after an allocation that succeeded
C11_Witness == last.op = "New" /\ last.ret = nullptr /\ returned # {}

(* C12 destroy: Delete<T> of a non-null handle runs T's destructor exactly *)
(* once and before the block is marked free and coalesced; Delete of null  *)
(* runs neither; Delete of a non-null pointer this arena never returned    *)
(* still runs the destructor but changes no block's size or free flag.     *)
C12_DeleteOrder ==
    last.op = "Delete" =>
        /\ last.ptr # nullptr =>
               /\ last.events = <<"dtor", "InternalFree">>
               /\ last.dtor = 1
               /\ last.at = last.ptr
        /\ last.ptr = nullptr =>
               /\ last.events = << >>
               /\ mem = last.pre
        /\ (last.ptr # nullptr /\ last.ptr \notin returned) =>
               /\ last.dtor = 1
               /\ BlockInfo(mem) = BlockInfo(last.pre)

(* C13 Size bound: every block's size is at most capacity - headerSize,    *)
(* and every value an allocate or release stores into a header's 31 bit    *)
(* size field lies in that range (no store is reduced modulo 2^31).        *)
C13_SizeBound ==
    /\ \A k \in 1 .. Len(Blocks(mem)) : BlockSize(mem, Blocks(mem)[k]) <= SIZE - HeaderSize
    /\ \A w \in last.writes : BlockSize(mem, w) <= SIZE - HeaderSize

\* the bytes of the header at address a
HeaderBytes(a) == a .. (a + HeaderSize - 1)

\* memories m1 and m2 agree on every byte outside the set S of addresses
SameOutside(m1, m2, S) == \A a \in MemAddrs \ S : m1[a] = m2[a]

(* C14 Absorb rule: when allocate selects a free block of size old for a   *)
(* request req <= old with old - req - headerSize <= headerSize (exact and *)
(* near-exact fits included), the block becomes occupied with size old, no *)
(* other header is written and every other block is unchanged.             *)
C14_Absorb ==
    (last.op \in AllocOps /\ last.ret # nullptr) =>
        LET i == last.ret - HeaderSize
            old == BlockSize(last.pre, i)
        IN  (ReqAtMost(last.req, old) /\ ~ReqAtMost(last.req, old - 2 * HeaderSize - 1)) =>
                /\ ~BlockFree(mem, i)
                /\ BlockSize(mem, i) = old
                /\ last.writes = {i}
                /\ SameOutside(mem, last.pre, HeaderBytes(i))

\* allocate selected a block whose leftover old - req - headerSize exceeds headerSize
SplitCase ==
    /\ last.op \in AllocOps /\ last.ret # nullptr
    /\ ReqAtMost(last.req, BlockSize(last.pre, last.ret - HeaderSize) - 2 * HeaderSize - 1)

(* C15 Split rule: when allocate selects a free block of size old for a    *)
(* request req with old - req - headerSize > headerSize, the block becomes *)
(* occupied with size req, a free block of size old - req - headerSize is  *)
(* created at (selected block + headerSize + req), and every other block   *)
(* is unchanged.                                                           *)
C15_Split ==
    SplitCase =>
        LET i == last.ret - HeaderSize
            old == BlockSize(last.pre, i)
            n == BlockNext(mem, i)
        IN  /\ ~BlockFree(mem, i)
            /\ BlockSize(mem, i) = last.req.lo
            /\ last.writes = {i, n}
            /\ n <= End =>
                   /\ n = i + HeaderSize + last.req.lo
                   /\ BlockFree(mem, n)
                   /\ BlockSize(mem, n) = old - last.req.lo - HeaderSize
            /\ SameOutside(mem, last.pre, HeaderBytes(i) \cup HeaderBytes(n))

\* a split of a block that is not the first one
C15_Witness == SplitCase /\ last.ret > Begin + HeaderSize /\ BlockNext(mem, last.ret - HeaderSize) < End

\* the sum of the numbers of the sequence q, or -1 when it exceeds 2^31 - 1
RECURSIVE SumOrOver(_)
SumOrOver(q) ==
    IF q = << >> THEN 0
    ELSE LET t == SumOrOver(Tail(q))
         IN  IF t < 0 \/ Head(q) > MaxSize31 - t THEN -1 ELSE Head(q) + t

\* the index of address a in the walk of memory m, or 0
IndexOf(m, a) ==
    IF \E k \in 1 .. Len(Blocks(m)) : Blocks(m)[k] = a
    THEN CHOOSE k \in 1 .. Len(Blocks(m)) : Blocks(m)[k] = a
    ELSE 0

\* a live handle, whose block is one of the blocks of the arena, was released
ReleaseCase ==
    /\ last.op \in ReleaseOps /\ last.wasLive
    /\ IndexOf(last.pre, last.ptr - HeaderSize) > 0

(* C16 Release by neighbour configuration: releasing the live handle of    *)
(* block m with predecessor p and successor n leaves, in one call, a       *)
(* single free block that starts at p if p is free (else at m) and whose   *)
(* size is m.size plus (headerSize + n.size) if n is free plus             *)
(* (headerSize + p.size) if p is free; every other block keeps its         *)
(* address, size and flag.                                                 *)
C16_ReleaseResult ==
    ReleaseCase =>
        LET old == BlockInfo(last.pre)
            k == IndexOf(last.pre, last.ptr - HeaderSize)
            pf == k > 1 /\ old[k - 1].free
            nf == k < Len(old) /\ old[k + 1].free
            lo == IF pf THEN k - 1 ELSE k
            hi == IF nf THEN k + 1 ELSE k
            size == SumOrOver(<<old[k].size>>
                        \o (IF nf THEN <<HeaderSize, old[k + 1].size>> ELSE << >>)
                        \o (IF pf THEN <<HeaderSize, old[k - 1].size>> ELSE << >>))
        IN  BlockInfo(mem) =
                SubSeq(old, 1, lo - 1)
                    \o <<[addr |-> old[lo].addr, size |-> size, free |-> TRUE]>>
                    \o SubSeq(old, hi + 1, Len(old))

\* block b of the arena before the last call was occupied / free
WasOccupied(b) == ~BlockFree(last.pre, b)
WasFree(b) == BlockFree(last.pre, b)

\* the header of block b reads the same before and after the last call
HeaderKept(b) ==
    /\ BlockFree(mem, b) = BlockFree(last.pre, b)
    /\ BlockSize(mem, b) = BlockSize(last.pre, b)

(* C17 Per-block state machine: the only transitions of a block are Free   *)
(* to Occupied (only the block selected by an allocate), Occupied to Free  *)
(* (only the block whose own handle is released) and Free to a larger Free *)
(* (only by coalescing in a release); an occupied block's flag and size    *)
(* are not changed by an allocate or by a release of another handle.       *)
C17_BlockStates ==
    \A k \in 1 .. Len(Blocks(last.pre)) :
        LET b == Blocks(last.pre)[k]
        IN  /\ (WasOccupied(b) /\ last.op \in AllocOps) => HeaderKept(b)
            /\ (WasOccupied(b) /\ last.op \in ReleaseOps
                    /\ last.ptr # b + HeaderSize) => HeaderKept(b)
            /\ (WasOccupied(b) /\ BlockFree(mem, b)) =>
                    /\ last.op \in ReleaseOps
                    /\ last.ptr = b + HeaderSize
            /\ (WasFree(b) /\ ~BlockFree(mem, b)) =>
                    /\ last.op \in AllocOps
                    /\ last.ret = b + HeaderSize
            /\ (WasFree(b) /\ BlockFree(mem, b) /\ ~HeaderKept(b)) =>
                    /\ last.op \in ReleaseOps
                    /\ BlockSize(mem, b) > BlockSize(last.pre, b)

\* the arena after Malloc(req) and then Free of the handle it returned
RoundTrip(m, req) == Free(Malloc(m, req).mem, Malloc(m, req).ret).mem

(* C18 Allocate-release round trip: from every reachable arena state and   *)
(* for every request size for which allocate succeeds, allocate followed   *)
(* at once by the release of the returned handle restores the block        *)
(* sequence (addresses, sizes, free flags) that existed before.            *)
C18_RoundTrip ==
    \A req \in Requests :
        Malloc(mem, req).ret # nullptr =>
            BlockInfo(RoundTrip(mem, req)) = BlockInfo(mem)

(* C19 Bounded internal fragmentation: right after every successful        *)
(* allocate(req) the size in the returned block's header satisfies         *)
(* req <= size <= req + 2 * headerSize.                                    *)
C19_Fragmentation ==
    (last.op \in AllocOps /\ last.ret # nullptr) =>
        LET size == BlockSize(mem, last.ret - HeaderSize)
        IN  /\ ReqAtMost(last.req, size)
            /\ ~ReqAtMost(last.req, size - 2 * HeaderSize - 1)

\* the blocks InternalMalloc's for loop examines, in order, from block i
RECURSIVE ScanVisits(_, _, _)
ScanVisits(m, i, size) ==
    IF i < End
    THEN IF BlockFree(m, i) /\ SizeFits(m, i, size)
         THEN <<i>>
         ELSE <<i>> \o ScanVisits(m, BlockNext(m, i), size)
    ELSE << >>

\* the value of i when the for loop is left: the block selected, or the
\* first computed next address that is not below End
RECURSIVE ScanStop(_, _, _)
ScanStop(m, i, size) ==
    IF i < End
    THEN IF BlockFree(m, i) /\ SizeFits(m, i, size)
         THEN i
         ELSE ScanStop(m, BlockNext(m, i), size)
    ELSE i

\* the blocks Previous's while loop tests, in order, from block s
RECURSIVE PreviousVisits(_, _, _)
PreviousVisits(m, this, s) ==
    IF BlockNext(m, s) < this
    THEN <<s>> \o PreviousVisits(m, this, BlockNext(m, s))
    ELSE <<s>>

(* C20 Termination of the scans: in every state reached by allocates and   *)
(* releases of live handles, the first-fit scan of an allocate visits at   *)
(* most as many blocks as the arena holds and stops at or before the       *)
(* buffer end, and the previous-block scan of the release of a live handle *)
(* visits at most that many blocks and stops at the block whose next       *)
(* address is the released block, or at the released block itself when it  *)
(* is the first block.                                                     *)
C20_ScansTerminate ==
    /\ \A req \in Requests :
        /\ Len(ScanVisits(mem, Begin, ToUint32(req))) <= Len(Blocks(mem))
        /\ ScanStop(mem, Begin, ToUint32(req)) <= End
    /\ \A h \in LiveHandles :
        LET m == h - HeaderSize
            p == BlockPrevious(mem, m, Begin)
        IN  /\ Len(PreviousVisits(mem, m, Begin)) <= Len(Blocks(mem))
            /\ IF m = Begin THEN p = m ELSE BlockNext(mem, p) = m

====
